---------------------------- MODULE Spec2Model ----------------------------
(***************************************************************************)
(* Validation-guided repair engine: the attempt orchestration of           *)
(* generateEmail (generateEmail.js) and generateMultiformat                 *)
(* (generateMultiformat.js), with the repair-scope resolver of              *)
(* surgicalRepair.js.                                                       *)
(*                                                                         *)
(* One behaviour is one generation session.  The session is an async       *)
(* function: it is suspended only at `await callLLM(...)`; every other      *)
(* statement runs to the next progress checkpoint without interleaving.     *)
(* pc names the statement the session is at.                                *)
(***************************************************************************)
EXTENDS Integers, Sequences, FiniteSets, TLC

VARIABLES
    fn,               \* which orchestrator runs the session
    enableRepairLoop, \* settings.enableRepairLoop
    maxAttempts,      \* MAX_REPAIR_ATTEMPTS of the session
    onProgress,       \* the progress callback: "absent" or "present"
    pc,               \* position of the session in the function body
    attempt,          \* the attempt number (1, then the loop variable)
    lastDraft,        \* let lastDraft
    lastValidation,   \* let lastValidation
    attemptHistory,   \* const attemptHistory = []
    outstanding,      \* generator calls issued and not yet settled
    callLog,          \* every generator call issued, with its prompt inputs
    responses,        \* what the generator answered to each call, in order
    result,           \* the value the returned promise resolves with
    errorKind,        \* how the returned promise rejected, if it did
    cbThrew,          \* the progress callback raised at some checkpoint
    call              \* a call of one of the pure functions: argument, result

vars == <<fn, enableRepairLoop, maxAttempts, onProgress, pc, attempt, lastDraft,
          lastValidation, attemptHistory, outstanding, callLog, responses,
          result, errorKind, cbThrew, call>>

----------------------------------------------------------------------------
(* Bounds and program constants *)

\* Largest attempt budget of the generalised specification SpecBudget.
MaxBudget == 4

DEFAULT_MAX_REPAIR_ATTEMPTS == 3

----------------------------------------------------------------------------
(* Strings as JavaScript sees them: sequences of UTF-16 code units *)

Units(s) ==
    CASE s = "CHAR_LIMIT_EXCEEDED" -> <<67, 72, 65, 82, 95, 76, 73, 77, 73, 84, 95, 69, 88, 67, 69, 69, 68, 69, 68>>
      [] s = "FORBIDDEN_KUPIT" -> <<70, 79, 82, 66, 73, 68, 68, 69, 78, 95, 75, 85, 80, 73, 84>>
      [] s = "TRIGRAM_DUPLICATION" -> <<84, 82, 73, 71, 82, 65, 77, 95, 68, 85, 80, 76, 73, 67, 65, 84, 73, 79, 78>>
      [] s = "BLOCK_TOO_LONG" -> <<66, 76, 79, 67, 75, 95, 84, 79, 79, 95, 76, 79, 78, 71>>
      [] s = "PARSE_FAILED" -> <<80, 65, 82, 83, 69, 95, 70, 65, 73, 76, 69, 68>>
      [] s = "subject" -> <<115, 117, 98, 106, 101, 99, 116>>
      [] s = "preheader" -> <<112, 114, 101, 104, 101, 97, 100, 101, 114>>
      [] s = "subject <-> preheader" -> <<115, 117, 98, 106, 101, 99, 116, 32, 60, 45, 62, 32, 112, 114, 101, 104, 101, 97, 100, 101, 114>>
      [] s = "blocks[0]" -> <<98, 108, 111, 99, 107, 115, 91, 48, 93>>
      [] s = "blocks[1]" -> <<98, 108, 111, 99, 107, 115, 91, 49, 93>>
      [] s = "output" -> <<111, 117, 116, 112, 117, 116>>

\* a < b in the order Array.prototype.sort() uses without a comparator:
\* code unit by code unit, a proper prefix first.
RECURSIVE StringLess(_, _)
StringLess(a, b) ==
    IF b = <<>> THEN FALSE
    ELSE IF a = <<>> THEN TRUE
    ELSE IF Head(a) # Head(b) THEN Head(a) < Head(b)
    ELSE StringLess(Tail(a), Tail(b))

\* parts.join(sep)
RECURSIVE Join(_, _)
Join(parts, sep) ==
    IF parts = <<>> THEN <<>>
    ELSE IF Len(parts) = 1 THEN parts[1]
    ELSE parts[1] \o sep \o Join(Tail(parts), sep)

----------------------------------------------------------------------------
(* Violations and validation results *)

Violation(c, s, l) == [code |-> c, severity |-> s, location |-> l]

\* violations.filter(v => v.severity === 'ERROR').length
RECURSIVE ErrorCount(_)
ErrorCount(violations) ==
    IF violations = <<>> THEN 0
    ELSE (IF Head(violations).severity = "ERROR" THEN 1 ELSE 0)
         + ErrorCount(Tail(violations))

\* violations.map(v => `${v.code}:${v.location}`).sort().join('|')
generateViolationSignature(violations) ==
    LET keys == [i \in 1..Len(violations) |->
                    Units(violations[i].code) \o <<58>>
                        \o Units(violations[i].location)]
    IN  Join(SortSeq(keys, StringLess), <<124>>)

----------------------------------------------------------------------------
(* The drafts the generator may answer with, given by what the validator    *)
(* reports on each.  "empty" is the empty string.                           *)

Drafts == {"ok", "warn", "subj", "subjw", "two", "two2", "three", "empty"}

DraftViolations(d) ==
    CASE d = "ok"    -> <<>>
      [] d = "warn"  -> <<Violation("BLOCK_TOO_LONG", "WARNING", "blocks[0]")>>
      [] d = "subj"  -> <<Violation("CHAR_LIMIT_EXCEEDED", "ERROR", "subject")>>
      [] d = "subjw" -> <<Violation("CHAR_LIMIT_EXCEEDED", "ERROR", "subject"),
                          Violation("BLOCK_TOO_LONG", "WARNING", "blocks[0]"),
                          Violation("BLOCK_TOO_LONG", "WARNING", "blocks[1]")>>
      [] d = "two"   -> <<Violation("CHAR_LIMIT_EXCEEDED", "ERROR", "subject"),
                          Violation("FORBIDDEN_KUPIT", "ERROR", "preheader")>>
      [] d = "two2"  -> <<Violation("CHAR_LIMIT_EXCEEDED", "ERROR", "subject"),
                          Violation("FORBIDDEN_KUPIT", "ERROR", "preheader")>>
      [] d = "three" -> <<Violation("CHAR_LIMIT_EXCEEDED", "ERROR", "subject"),
                          Violation("FORBIDDEN_KUPIT", "ERROR", "preheader"),
                          Violation("TRIGRAM_DUPLICATION", "ERROR",
                                    "subject <-> preheader")>>
      [] d = "empty" -> <<Violation("PARSE_FAILED", "ERROR", "output")>>

\* The fields whose section header stands in the draft (extractField # null).
DraftFields(d) ==
    IF d = "empty" THEN {}
    ELSE {"subject", "preheader", "bannerTitle", "bannerSubtitle", "body", "cta"}

\* message.content of a response may be null; the validators dereference it.
NullDraft == "null"

NoStructure == [of |-> "undefined"]

NullValidation ==
    [valid |-> FALSE, violations |-> <<>>, structure |-> [of |-> "null"]]

\* validateEmail / validateMultiformat throw a TypeError on null content.
ValidatorThrows(d) == d = NullDraft

validateEmail(d) ==
    IF d = "empty"
    THEN [valid |-> FALSE, violations |-> DraftViolations(d),
          structure |-> NoStructure]
    ELSE [valid |-> ErrorCount(DraftViolations(d)) = 0,
          violations |-> DraftViolations(d),
          structure |-> [of |-> d]]

\* isValid = stats.errors === 0; the result carries no structure.
validateMultiformat(d) ==
    [valid |-> ErrorCount(DraftViolations(d)) = 0,
     violations |-> DraftViolations(d),
     structure |-> NoStructure]

----------------------------------------------------------------------------
(* surgicalRepair.js: the repair scope of a violation *)

fullContextCodes == {"EXACT_EQUALITY", "TRIGRAM_DUPLICATION", "CROSS_FIELD_SIMILARITY"}

validLocations == {"subject", "preheader", "bannerTitle", "bannerSubtitle", "body", "cta"}

\* Mutant: a code outside the listed ones always widens to the whole draft.
determineRepairScopeListedOnly(violation) ==
    IF violation.code \in fullContextCodes \/ violation.code = "UNLISTED_CODE"
    THEN [field |-> "all", requiresFullContext |-> TRUE]
    ELSE IF violation.location \in validLocations
    THEN [field |-> violation.location, requiresFullContext |-> FALSE]
    ELSE [field |-> "all", requiresFullContext |-> TRUE]

\* Mutant: the location is looked at before the code.
determineRepairScopeLocationFirst(violation) ==
    IF violation.location \in validLocations
    THEN [field |-> violation.location, requiresFullContext |-> FALSE]
    ELSE [field |-> "all", requiresFullContext |-> TRUE]

determineRepairScope(violation) ==
    IF violation.code \in fullContextCodes
    THEN [field |-> "all", requiresFullContext |-> TRUE]
    ELSE IF violation.location \in validLocations
    THEN [field |-> violation.location, requiresFullContext |-> FALSE]
    ELSE [field |-> "all", requiresFullContext |-> TRUE]

----------------------------------------------------------------------------
(* The session *)

Responses == {"fail", NullDraft} \cup Drafts

NoResult ==
    [success |-> FALSE, content |-> NullDraft, violations |-> <<>>,
     attempts |-> 0, structure |-> [of |-> "null"]]

\* Mutant: the setting is ignored and the repair loop always runs.
MaxRepairAttemptsIgnoringSetting(enable) == DEFAULT_MAX_REPAIR_ATTEMPTS

\* settings.enableRepairLoop ? DEFAULT_MAX_REPAIR_ATTEMPTS : 1
MaxRepairAttempts(enable) ==
    IF enable THEN DEFAULT_MAX_REPAIR_ATTEMPTS ELSE 1

\* What a checkpoint `if (onProgress) { onProgress(...) }` may do: TRUE is
\* "the callback raised".  A present callback returns normally or raises.
Raises == IF onProgress = "present" THEN BOOLEAN ELSE {FALSE}

\* No pure function is under call during a session.
NoCall == [op |-> "none", arg |-> <<>>, done |-> TRUE, ret |-> <<>>]

InitCommon ==
    /\ call = NoCall
    /\ onProgress \in {"absent", "present"}
    /\ pc = "start"
    /\ attempt = 1
    /\ lastDraft = NullDraft
    /\ lastValidation = NullValidation
    /\ attemptHistory = <<>>
    /\ outstanding = 0
    /\ callLog = <<>>
    /\ responses = <<>>
    /\ result = NoResult
    /\ errorKind = "none"
    /\ cbThrew = FALSE

Init ==
    /\ fn \in {"generateEmail", "generateMultiformat"}
    /\ enableRepairLoop \in BOOLEAN
    /\ InitCommon
    /\ maxAttempts = MaxRepairAttempts(enableRepairLoop)

Session == <<fn, enableRepairLoop, maxAttempts, onProgress, call>>

\* callLLM(messages, settings) is issued and the session suspends on it.
IssueCall(kind) ==
    /\ outstanding' = outstanding + 1
    /\ callLog' = Append(callLog,
                    [attempt |-> attempt, kind |-> kind, draft |-> lastDraft,
                     violations |-> lastValidation.violations])

\* Mutant: the call is not awaited; it is still in flight when the session
\* goes on.
SettleNotAwaited == outstanding' = outstanding

\* `await`: the session resumes only when the call has settled.
Settle == outstanding' = outstanding - 1

\* The promise rejects: `throw new Error(...)` leaves the function.
Reject(kind) ==
    /\ pc' = "error"
    /\ errorKind' = kind
    /\ result' = NoResult

\* The promise resolves with r.
Return(r) ==
    /\ pc' = "done"
    /\ result' = r
    /\ errorKind' = "none"

\* Mutant: the loop bound is off by one.
LoopFromOffByOne(k) == IF k <= maxAttempts + 1 THEN "loop" ELSE "select"

\* for (...; attempt <= MAX_REPAIR_ATTEMPTS; attempt++): the next iteration,
\* or the statement after the loop.
LoopFrom(k) == IF k <= maxAttempts THEN "loop" ELSE "select"

\* End of an iteration's body, normally or through its catch block.
NextIteration ==
    /\ attempt' = attempt + 1
    /\ pc' = LoopFrom(attempt + 1)

\* catch (error) { throw new Error(`Initial generation failed: ...`) }
InitialCatch == Reject("initial")

\* Mutant: the repair loop's catch block rethrows.
RepairCatchRethrows ==
    /\ attempt' = attempt
    /\ pc' = "error"

\* catch (error) { console.error(...) } inside the repair loop
RepairCatch == NextIteration

\* Mutant: the history numbers its entries from 0.
EntryNumberedFromZero(k, d, v) ==
    [attempt |-> k - 1, draft |-> d, validation |-> v]

\* attemptHistory.push({ attempt, draft: lastDraft, validation: lastValidation })
Entry(k, d, v) == [attempt |-> k, draft |-> d, validation |-> v]

\* attemptHistory.reduce((best, current) =>
\*     currentErrors < bestErrors ? current : best, attemptHistory[0])
RECURSIVE ReduceBest(_, _, _)
ReduceBest(history, i, best) ==
    IF i > Len(history) THEN best
    ELSE LET bestErrors == ErrorCount(best.validation.violations)
             currentErrors == ErrorCount(history[i].validation.violations)
         IN  ReduceBest(history, i + 1,
                        IF currentErrors < bestErrors THEN history[i] ELSE best)

\* Mutant: `<=` in the reducer, so that a later attempt wins a tie.
RECURSIVE ReduceBestLatest(_, _, _)
ReduceBestLatest(history, i, best) ==
    IF i > Len(history) THEN best
    ELSE LET bestErrors == ErrorCount(best.validation.violations)
             currentErrors == ErrorCount(history[i].validation.violations)
         IN  ReduceBestLatest(history, i + 1,
                              IF currentErrors <= bestErrors THEN history[i] ELSE best)

BestAttemptLatestOnTie(history) == ReduceBestLatest(history, 1, history[1])

BestAttempt(history) == ReduceBest(history, 1, history[1])

\* Mutant: the signatures are compared from the first repair on.
ViolationsRepeatFromFirstRepair(k, history, current) ==
    /\ k > 1
    /\ generateViolationSignature(history[Len(history) - 1].validation.violations)
         = generateViolationSignature(current.violations)

\* Mutant: the signatures are compared one attempt too late.
ViolationsRepeatLate(k, history, current) ==
    /\ k > 3
    /\ generateViolationSignature(history[Len(history) - 1].validation.violations)
         = generateViolationSignature(current.violations)

\* if (attempt > 2) { prevSignature === currentSignature }
ViolationsRepeat(k, history, current) ==
    /\ k > 2
    /\ generateViolationSignature(history[Len(history) - 1].validation.violations)
         = generateViolationSignature(current.violations)

SuccessResult(k, draft, validation) ==
    [success |-> TRUE, content |-> draft, violations |-> <<>>,
     attempts |-> k, structure |-> validation.structure]

\* Mutant: the violations of the last attempt are returned with the best
\* attempt's draft.
BestResultLastViolations(history) ==
    LET bestAttempt == BestAttempt(history)
    IN  [success |-> FALSE, content |-> bestAttempt.draft,
         violations |-> history[Len(history)].validation.violations,
         attempts |-> Len(history),
         structure |-> bestAttempt.validation.structure]

BestResult(history) ==
    LET bestAttempt == BestAttempt(history)
    IN  [success |-> FALSE, content |-> bestAttempt.draft,
         violations |-> bestAttempt.validation.violations,
         attempts |-> Len(history),
         structure |-> bestAttempt.validation.structure]

----------------------------------------------------------------------------
(* generateEmail *)

\* Attempt 1: first checkpoint, compose the generation prompt, call.
generateEmail_Begin ==
    /\ fn = "generateEmail"
    /\ pc = "start"
    /\ \E raised \in Raises :
          /\ cbThrew' = (cbThrew \/ raised)
          /\ IF raised
             THEN InitialCatch /\ UNCHANGED <<outstanding, callLog>>
             ELSE /\ IssueCall("generation")
                  /\ pc' = "awaitInitial"
                  /\ UNCHANGED <<result, errorKind>>
    /\ UNCHANGED <<Session, attempt, lastDraft, lastValidation, attemptHistory,
                   responses>>

\* lastDraft = await callLLM(messages, settings), attempt 1.
generateEmail_InitialResponse ==
    /\ fn = "generateEmail"
    /\ pc = "awaitInitial"
    /\ \E r \in Responses :
          /\ responses' = Append(responses, r)
          /\ Settle
          /\ IF r = "fail"
             THEN InitialCatch /\ UNCHANGED lastDraft
             ELSE /\ lastDraft' = r
                  /\ pc' = "validateInitial"
                  /\ UNCHANGED <<result, errorKind>>
    /\ UNCHANGED <<Session, attempt, lastValidation, attemptHistory, callLog,
                   cbThrew>>

\* Checkpoint, validateEmail, attemptHistory.push, attempt 1.
generateEmail_ValidateInitial ==
    /\ fn = "generateEmail"
    /\ pc = "validateInitial"
    /\ \E raised \in Raises :
          /\ cbThrew' = (cbThrew \/ raised)
          /\ IF raised \/ ValidatorThrows(lastDraft)
             THEN InitialCatch /\ UNCHANGED <<lastValidation, attemptHistory>>
             ELSE /\ lastValidation' = validateEmail(lastDraft)
                  /\ attemptHistory' =
                        Append(attemptHistory,
                               Entry(1, lastDraft, validateEmail(lastDraft)))
                  /\ pc' = IF validateEmail(lastDraft).valid
                           THEN "returnInitial" ELSE "reportViolations"
                  /\ UNCHANGED <<result, errorKind>>
    /\ UNCHANGED <<Session, attempt, lastDraft, outstanding, callLog, responses>>

\* if (lastValidation.valid) { checkpoint; return {success: true, ...} }
generateEmail_ReturnInitial ==
    /\ fn = "generateEmail"
    /\ pc = "returnInitial"
    /\ \E raised \in Raises :
          /\ cbThrew' = (cbThrew \/ raised)
          /\ IF raised THEN InitialCatch ELSE Return(SuccessResult(1, lastDraft, lastValidation))
    /\ UNCHANGED <<Session, attempt, lastDraft, lastValidation, attemptHistory,
                   outstanding, callLog, responses>>

\* Checkpoint "Found n violations, attempting repair...", then the loop.
generateEmail_ReportViolations ==
    /\ fn = "generateEmail"
    /\ pc = "reportViolations"
    /\ \E raised \in Raises :
          /\ cbThrew' = (cbThrew \/ raised)
          /\ IF raised
             THEN InitialCatch /\ UNCHANGED attempt
             ELSE /\ attempt' = 2
                  /\ pc' = LoopFrom(2)
                  /\ UNCHANGED <<result, errorKind>>
    /\ UNCHANGED <<Session, lastDraft, lastValidation, attemptHistory,
                   outstanding, callLog, responses>>

\* Loop body: checkpoint, composeRepairPrompt(lastDraft, violations), call.
generateEmail_RepairBegin ==
    /\ fn = "generateEmail"
    /\ pc = "loop"
    /\ \E raised \in Raises :
          /\ cbThrew' = (cbThrew \/ raised)
          /\ IF raised
             THEN RepairCatch /\ UNCHANGED <<outstanding, callLog>>
             ELSE /\ IssueCall("repair")
                  /\ pc' = "awaitRepair"
                  /\ UNCHANGED attempt
    /\ UNCHANGED <<Session, lastDraft, lastValidation, attemptHistory, responses,
                   result, errorKind>>

\* lastDraft = await callLLM(messages, settings), attempts 2+.
generateEmail_RepairResponse ==
    /\ fn = "generateEmail"
    /\ pc = "awaitRepair"
    /\ \E r \in Responses :
          /\ responses' = Append(responses, r)
          /\ Settle
          /\ IF r = "fail"
             THEN RepairCatch /\ UNCHANGED lastDraft
             ELSE /\ lastDraft' = r
                  /\ pc' = "validateRepair"
                  /\ UNCHANGED attempt
    /\ UNCHANGED <<Session, lastValidation, attemptHistory, callLog, result,
                   errorKind, cbThrew>>

\* Checkpoint, validateEmail, attemptHistory.push, attempts 2+.
generateEmail_ValidateRepair ==
    /\ fn = "generateEmail"
    /\ pc = "validateRepair"
    /\ \E raised \in Raises :
          /\ cbThrew' = (cbThrew \/ raised)
          /\ IF raised \/ ValidatorThrows(lastDraft)
             THEN RepairCatch /\ UNCHANGED <<lastValidation, attemptHistory>>
             ELSE /\ lastValidation' = validateEmail(lastDraft)
                  /\ attemptHistory' =
                        Append(attemptHistory,
                               Entry(attempt, lastDraft, validateEmail(lastDraft)))
                  /\ pc' = IF validateEmail(lastDraft).valid
                           THEN "returnRepaired" ELSE "reportProgress"
                  /\ UNCHANGED attempt
    /\ UNCHANGED <<Session, lastDraft, outstanding, callLog, responses, result,
                   errorKind>>

\* if (lastValidation.valid) { checkpoint; return {success: true, ...} }
generateEmail_ReturnRepaired ==
    /\ fn = "generateEmail"
    /\ pc = "returnRepaired"
    /\ \E raised \in Raises :
          /\ cbThrew' = (cbThrew \/ raised)
          /\ IF raised
             THEN RepairCatch /\ UNCHANGED <<result, errorKind>>
             ELSE Return(SuccessResult(attempt, lastDraft, lastValidation)) /\ UNCHANGED attempt
    /\ UNCHANGED <<Session, lastDraft, lastValidation, attemptHistory,
                   outstanding, callLog, responses>>

\* Progress checkpoint, then the early-stop test on the signatures.
generateEmail_ReportProgress ==
    /\ fn = "generateEmail"
    /\ pc = "reportProgress"
    /\ \E raised \in Raises :
          /\ cbThrew' = (cbThrew \/ raised)
          /\ IF raised
             THEN RepairCatch
             ELSE IF ViolationsRepeat(attempt, attemptHistory, lastValidation)
             THEN pc' = "stopRepeating" /\ UNCHANGED attempt
             ELSE NextIteration
    /\ UNCHANGED <<Session, lastDraft, lastValidation, attemptHistory,
                   outstanding, callLog, responses, result, errorKind>>

\* Checkpoint "Violations repeating, stopping repair loop"; break.
generateEmail_StopRepeating ==
    /\ fn = "generateEmail"
    /\ pc = "stopRepeating"
    /\ \E raised \in Raises :
          /\ cbThrew' = (cbThrew \/ raised)
          /\ IF raised
             THEN RepairCatch
             ELSE pc' = "select" /\ UNCHANGED attempt
    /\ UNCHANGED <<Session, lastDraft, lastValidation, attemptHistory,
                   outstanding, callLog, responses, result, errorKind>>

\* After the loop: best attempt, checkpoint, return {success: false, ...}.
generateEmail_ReturnBest ==
    /\ fn = "generateEmail"
    /\ pc = "select"
    /\ \E raised \in Raises :
          /\ cbThrew' = (cbThrew \/ raised)
          /\ IF raised
             THEN Reject("callback")
             ELSE Return(BestResult(attemptHistory))
    /\ UNCHANGED <<Session, attempt, lastDraft, lastValidation, attemptHistory,
                   outstanding, callLog, responses>>

generateEmail ==
    \/ generateEmail_Begin
    \/ generateEmail_InitialResponse
    \/ generateEmail_ValidateInitial
    \/ generateEmail_ReturnInitial
    \/ generateEmail_ReportViolations
    \/ generateEmail_RepairBegin
    \/ generateEmail_RepairResponse
    \/ generateEmail_ValidateRepair
    \/ generateEmail_ReturnRepaired
    \/ generateEmail_ReportProgress
    \/ generateEmail_StopRepeating
    \/ generateEmail_ReturnBest

----------------------------------------------------------------------------
(* generateMultiformat *)

\* return { success: lastValidation.isValid, content: lastDraft, ...,
\*          attempts: 1 }
FirstResult(draft, validation) ==
    [success |-> validation.valid, content |-> draft,
     violations |-> validation.violations,
     attempts |-> 1, structure |-> NoStructure]

\* return { success: true, content: lastDraft, violations: [], attempts }
RepairedResult(k, draft) ==
    [success |-> TRUE, content |-> draft, violations |-> <<>>,
     attempts |-> k, structure |-> NoStructure]

\* return { success: false, content: lastDraft,
\*          violations: lastValidation.violations, attempts: MAX_REPAIR_ATTEMPTS }
LastResult(draft, validation, budget) ==
    [success |-> FALSE, content |-> draft,
     violations |-> validation.violations,
     attempts |-> budget, structure |-> NoStructure]

\* Attempt 1: first checkpoint, compose the generation prompt, call.
generateMultiformat_Begin ==
    /\ fn = "generateMultiformat"
    /\ pc = "start"
    /\ \E raised \in Raises :
          /\ cbThrew' = (cbThrew \/ raised)
          /\ IF raised
             THEN InitialCatch /\ UNCHANGED <<outstanding, callLog>>
             ELSE /\ IssueCall("generation")
                  /\ pc' = "awaitInitial"
                  /\ UNCHANGED <<result, errorKind>>
    /\ UNCHANGED <<Session, attempt, lastDraft, lastValidation, attemptHistory,
                   responses>>

\* lastDraft = await callLLM(messages, settings), attempt 1.
generateMultiformat_InitialResponse ==
    /\ fn = "generateMultiformat"
    /\ pc = "awaitInitial"
    /\ \E r \in Responses :
          /\ responses' = Append(responses, r)
          /\ Settle
          /\ IF r = "fail"
             THEN InitialCatch /\ UNCHANGED lastDraft
             ELSE /\ lastDraft' = r
                  /\ pc' = "validateInitial"
                  /\ UNCHANGED <<result, errorKind>>
    /\ UNCHANGED <<Session, attempt, lastValidation, attemptHistory, callLog,
                   cbThrew>>

\* Checkpoint, validateMultiformat, attemptHistory.push; then the return
\* branch (valid, or repair loop disabled) or the loop.
generateMultiformat_ValidateInitial ==
    /\ fn = "generateMultiformat"
    /\ pc = "validateInitial"
    /\ \E raised \in Raises :
          /\ cbThrew' = (cbThrew \/ raised)
          /\ IF raised \/ ValidatorThrows(lastDraft)
             THEN /\ InitialCatch
                  /\ UNCHANGED <<lastValidation, attemptHistory, attempt>>
             ELSE /\ lastValidation' = validateMultiformat(lastDraft)
                  /\ attemptHistory' =
                        Append(attemptHistory,
                               Entry(1, lastDraft, validateMultiformat(lastDraft)))
                  /\ IF validateMultiformat(lastDraft).valid \/ ~enableRepairLoop
                     THEN pc' = "returnInitial" /\ UNCHANGED attempt
                     ELSE pc' = LoopFrom(2) /\ attempt' = 2
                  /\ UNCHANGED <<result, errorKind>>
    /\ UNCHANGED <<Session, lastDraft, outstanding, callLog, responses>>

\* Checkpoint; return {success: lastValidation.isValid, ..., attempts: 1}.
generateMultiformat_ReturnInitial ==
    /\ fn = "generateMultiformat"
    /\ pc = "returnInitial"
    /\ \E raised \in Raises :
          /\ cbThrew' = (cbThrew \/ raised)
          /\ IF raised
             THEN InitialCatch
             ELSE Return(FirstResult(lastDraft, lastValidation))
    /\ UNCHANGED <<Session, attempt, lastDraft, lastValidation, attemptHistory,
                   outstanding, callLog, responses>>

\* Loop body: checkpoint, composeMultiformatRepairPrompt, call.
generateMultiformat_RepairBegin ==
    /\ fn = "generateMultiformat"
    /\ pc = "loop"
    /\ \E raised \in Raises :
          /\ cbThrew' = (cbThrew \/ raised)
          /\ IF raised
             THEN RepairCatch /\ UNCHANGED <<outstanding, callLog>>
             ELSE /\ IssueCall("repair")
                  /\ pc' = "awaitRepair"
                  /\ UNCHANGED attempt
    /\ UNCHANGED <<Session, lastDraft, lastValidation, attemptHistory, responses,
                   result, errorKind>>

\* lastDraft = await callLLM(...); validateMultiformat; attemptHistory.push.
generateMultiformat_RepairResponse ==
    /\ fn = "generateMultiformat"
    /\ pc = "awaitRepair"
    /\ \E r \in Responses :
          /\ responses' = Append(responses, r)
          /\ Settle
          /\ IF r = "fail"
             THEN /\ RepairCatch
                  /\ UNCHANGED <<lastDraft, lastValidation, attemptHistory>>
             ELSE IF ValidatorThrows(r)
             THEN /\ lastDraft' = r
                  /\ RepairCatch
                  /\ UNCHANGED <<lastValidation, attemptHistory>>
             ELSE /\ lastDraft' = r
                  /\ lastValidation' = validateMultiformat(r)
                  /\ attemptHistory' =
                        Append(attemptHistory,
                               Entry(attempt, r, validateMultiformat(r)))
                  /\ IF validateMultiformat(r).valid
                     THEN pc' = "returnRepaired" /\ UNCHANGED attempt
                     ELSE NextIteration
    /\ UNCHANGED <<Session, callLog, result, errorKind, cbThrew>>

\* if (lastValidation.isValid) { checkpoint; return {success: true, ...} }
generateMultiformat_ReturnRepaired ==
    /\ fn = "generateMultiformat"
    /\ pc = "returnRepaired"
    /\ \E raised \in Raises :
          /\ cbThrew' = (cbThrew \/ raised)
          /\ IF raised
             THEN RepairCatch /\ UNCHANGED <<result, errorKind>>
             ELSE /\ Return(RepairedResult(attempt, lastDraft))
                  /\ UNCHANGED attempt
    /\ UNCHANGED <<Session, lastDraft, lastValidation, attemptHistory,
                   outstanding, callLog, responses>>

\* After the loop: checkpoint; return {success: false, content: lastDraft,
\* violations: lastValidation.violations, attempts: MAX_REPAIR_ATTEMPTS}.
generateMultiformat_ReturnLast ==
    /\ fn = "generateMultiformat"
    /\ pc = "select"
    /\ \E raised \in Raises :
          /\ cbThrew' = (cbThrew \/ raised)
          /\ IF raised
             THEN Reject("callback")
             ELSE Return(LastResult(lastDraft, lastValidation, maxAttempts))
    /\ UNCHANGED <<Session, attempt, lastDraft, lastValidation, attemptHistory,
                   outstanding, callLog, responses>>

generateMultiformat ==
    \/ generateMultiformat_Begin
    \/ generateMultiformat_InitialResponse
    \/ generateMultiformat_ValidateInitial
    \/ generateMultiformat_ReturnInitial
    \/ generateMultiformat_RepairBegin
    \/ generateMultiformat_RepairResponse
    \/ generateMultiformat_ReturnRepaired
    \/ generateMultiformat_ReturnLast

----------------------------------------------------------------------------
(* The pure functions, each called once on an argument drawn from a bounded  *)
(* set: the validators' checks, the repair-scope resolver, the field span    *)
(* functions and the knowledge selector.                                     *)

Pending(op, arg) == [op |-> op, arg |-> arg, done |-> FALSE, ret |-> <<>>]

\* No session runs while a pure function is called.
Idle ==
    /\ fn = "none"
    /\ enableRepairLoop = FALSE
    /\ maxAttempts = 1
    /\ onProgress = "absent"
    /\ pc = "idle"
    /\ attempt = 1
    /\ lastDraft = NullDraft
    /\ lastValidation = NullValidation
    /\ attemptHistory = <<>>
    /\ outstanding = 0
    /\ callLog = <<>>
    /\ responses = <<>>
    /\ result = NoResult
    /\ errorKind = "none"
    /\ cbThrew = FALSE

Session_vars ==
    <<fn, enableRepairLoop, maxAttempts, onProgress, pc, attempt, lastDraft,
      lastValidation, attemptHistory, outstanding, callLog, responses, result,
      errorKind, cbThrew>>

Returns(op, value) ==
    /\ call.op = op
    /\ ~call.done
    /\ call' = [call EXCEPT !.done = TRUE, !.ret = value]
    /\ UNCHANGED Session_vars

Returned(op) == call.op = op /\ call.done

\* The violation codes the validators emit, and one they do not.
ScopeCodes ==
    {"EXACT_EQUALITY", "TRIGRAM_DUPLICATION", "CROSS_FIELD_SIMILARITY",
     "CHAR_LIMIT_EXCEEDED", "FORBIDDEN_KUPIT", "VARIANT_COUNT_INSUFFICIENT",
     "BLOCK_TOO_LONG", "PARSE_FAILED", "UNLISTED_CODE"}

\* The locations the validators emit, and some they do not.
ScopeLocations ==
    {"subject", "preheader", "bannerTitle", "bannerSubtitle", "body", "cta",
     "intro", "introCTA", "output", "subject <-> preheader", "blocks[0]",
     "all", "undefined"}

ScopeArgs ==
    {Violation(c, "ERROR", l) : c \in ScopeCodes, l \in ScopeLocations}

Call_determineRepairScope ==
    Returns("determineRepairScope", determineRepairScope(call.arg))

----------------------------------------------------------------------------
(* generateViolationSignature on two violation lists *)

\* Longest violation list compared.
MaxViolations == 3

SignedViolations ==
    {Violation("CHAR_LIMIT_EXCEEDED", "ERROR", "subject"),
     Violation("CHAR_LIMIT_EXCEEDED", "WARNING", "subject"),
     Violation("CHAR_LIMIT_EXCEEDED", "ERROR", "preheader"),
     Violation("FORBIDDEN_KUPIT", "ERROR", "subject")}

Call_generateViolationSignature ==
    Returns("generateViolationSignature",
            [first |-> generateViolationSignature(call.arg.first),
             second |-> generateViolationSignature(call.arg.second)])

----------------------------------------------------------------------------
(* surgicalRepair.js: extractField and replaceField.  A draft is the list of *)
(* its lines (output.split('\n')); a line is given by what the patterns of   *)
(* the two functions see in it:                                              *)
(*   "SUBJ"  "ТЕМА — 3 варианта"          "PRE"   "ПРЕХЕДЕР — 3 варианта"    *)
(*   "SUBT"  "ПОДЗАГОЛОВОК — 3 варианта"  "BODY"  "ТЕЛО ПИСЬМА"              *)
(*   "CTA"   "CTA — 3 варианта"           "var"   "1. ..."                   *)
(*   " var"  "  1. ..." (indented)        ""      a blank line               *)
(*   "TITLE" "ЗАГОЛОВОК — 3 варианта"                                        *)
(* and, among the lines parseEmailOutput takes for headers,                  *)
(*   "SUBJ:" "ТЕМА:"                      "nSUBJ" "1) ТЕМА — 3 варианта"     *)
(*   "INTRO" "ВВОДНЫЙ ТЕКСТ"              "BLOCK" "БЛОК 1"                   *)
(*   "BANNER" "ГЛАВНЫЙ БАННЕР"                                               *)

LineKinds ==
    {"SUBJ", "PRE", "TITLE", "SUBT", "BODY", "CTA", "var", " var", ""}

\* Longest draft, in lines.
MaxLines == 4

SpanFields ==
    {"subject", "preheader", "bannerTitle", "bannerSubtitle", "body", "cta",
     "intro"}

\* lines[i].trim()
Trim(line) == IF line = " var" THEN "var" ELSE line

\* sectionPatterns[fieldName] is defined.
HasPattern(field) == field \in validLocations

\* sectionPatterns[fieldName].test(line).  The bannerTitle pattern is not
\* anchored: it also matches inside "ПОДЗАГОЛОВОК —".
PatternTest(field, line) ==
    CASE field = "subject"        -> line \in {"SUBJ", "nSUBJ"}
      [] field = "preheader"      -> line = "PRE"
      [] field = "bannerTitle"    -> line \in {"TITLE", "SUBT"}
      [] field = "bannerSubtitle" -> line = "SUBT"
      [] field = "body"           -> line = "BODY"
      [] field = "cta"            -> line = "CTA"
      [] OTHER                    -> FALSE

\* /^(ТЕМА|ПРЕХЕДЕР|ЗАГОЛОВОК|ПОДЗАГОЛОВОК|ТЕЛО|CTA)\s*[—\-—]/i.test(line):
\* "ТЕЛО ПИСЬМА" has no dash after "ТЕЛО", "ТЕМА:" has a colon and
\* "1) ТЕМА" does not start with the word.
IsNewSection(line) == line \in {"SUBJ", "PRE", "TITLE", "SUBT", "CTA"}

\* Index of the first line the field's pattern matches, 0 if none.
RECURSIVE SectionStart(_, _, _)
SectionStart(lines, field, i) ==
    IF i > Len(lines) THEN 0
    ELSE IF PatternTest(field, Trim(lines[i])) THEN i
    ELSE SectionStart(lines, field, i + 1)

\* Index of the first section header after line i, Len(lines) + 1 if none.
RECURSIVE SectionEnd(_, _)
SectionEnd(lines, i) ==
    IF i > Len(lines) THEN Len(lines) + 1
    ELSE IF IsNewSection(Trim(lines[i])) THEN i
    ELSE SectionEnd(lines, i + 1)

\* String.prototype.trim() on the joined lines: the blank lines at the end
\* go (the first line is the header).
RECURSIVE TrimEnd(_)
TrimEnd(lines) ==
    IF lines = <<>> THEN <<>>
    ELSE IF lines[Len(lines)] = "" THEN TrimEnd(SubSeq(lines, 1, Len(lines) - 1))
    ELSE lines

\* The lines of the returned text; <<>> is null.
extractField(output, fieldName) ==
    IF ~HasPattern(fieldName) THEN <<>>
    ELSE
      LET start == SectionStart(output, fieldName, 1)
      IN  IF start = 0 THEN <<>>
          ELSE
            LET end == SectionEnd(output, start + 1)
            IN  TrimEnd([k \in 1..(end - start) |-> Trim(output[start + k - 1])])

\* Mutant: no blank line is added after the new content.
replaceFieldNoSeparator(output, fieldName, newContent) ==
    IF ~HasPattern(fieldName) THEN output
    ELSE
      LET start == SectionStart(output, fieldName, 1)
      IN  IF start = 0 THEN output
          ELSE
            LET end == SectionEnd(output, start + 1)
            IN  SubSeq(output, 1, start - 1) \o <<newContent>>
                  \o SubSeq(output, end, Len(output))

replaceField(output, fieldName, newContent) ==
    IF ~HasPattern(fieldName) THEN output
    ELSE
      LET start == SectionStart(output, fieldName, 1)
      IN  IF start = 0 THEN output
          ELSE
            LET end == SectionEnd(output, start + 1)
            IN  SubSeq(output, 1, start - 1) \o <<newContent, "">>
                  \o SubSeq(output, end, Len(output))

Call_extractField ==
    Returns("extractField",
            extractField(call.arg.output, call.arg.fieldName))

Call_replaceField ==
    Returns("replaceField",
            replaceField(call.arg.output, call.arg.fieldName,
                         call.arg.newContent))

----------------------------------------------------------------------------
(* validator.js: the headers of parseEmailOutput *)

HeaderLineKinds == LineKinds \cup {"SUBJ:", "nSUBJ", "INTRO", "BLOCK", "BANNER"}

\* Longest draft given to the structure extractor, in lines.
MaxParsedLines == 3

\* The section the line opens for parseEmailOutput, "none" for a line that
\* is no header.  The line is trimmed and its numbered prefix stripped
\* (lineNormalized) before the header patterns are tried.
SectionOf(line) ==
    CASE line \in {"SUBJ", "SUBJ:", "nSUBJ"} -> "subject"
      [] line = "PRE"    -> "preheader"
      [] line = "BANNER" -> "banner"
      [] line = "TITLE"  -> "bannerTitle"
      [] line = "SUBT"   -> "bannerSubtitle"
      [] line = "INTRO"  -> "intro"
      [] line = "CTA"    -> "introCTA"
      [] line = "BLOCK"  -> "blockTitle"
      [] OTHER           -> "none"

\* /^(\d+[.)\-]|[-•*])\s+/.test(line), on the trimmed line.
IsVariantLine(line) == line = "var"

\* A variant is given by the number of its line.
EmptyStructure ==
    [subject |-> <<>>, preheader |-> <<>>, bannerTitle |-> <<>>,
     bannerSubtitle |-> <<>>, introText |-> <<>>, introCTA |-> <<>>,
     productHeading |-> <<>>, blocks |-> <<>>]

NullStructure == [null |-> TRUE]

\* currentBlock is the number of the block in structure.blocks, 0 when the
\* caller passes none.
pushVariants(structure, section, variants, currentBlock) ==
    CASE section = "subject" ->
            [structure EXCEPT !.subject = @ \o variants]
      [] section = "preheader" ->
            [structure EXCEPT !.preheader = @ \o variants]
      [] section = "bannerTitle" ->
            [structure EXCEPT !.bannerTitle = @ \o variants]
      [] section = "bannerSubtitle" ->
            [structure EXCEPT !.bannerSubtitle = @ \o variants]
      [] section = "intro" ->
            [structure EXCEPT !.introText = variants]
      [] section = "introCTA" ->
            [structure EXCEPT !.introCTA = @ \o variants]
      [] section = "blockTitle" ->
            IF currentBlock # 0
            THEN [structure EXCEPT !.blocks[currentBlock].title = @ \o variants]
            ELSE structure
      [] OTHER -> structure

\* if (variantBuffer.length > 0) pushVariants(...)
Flush(structure, section, buffer, currentBlock) ==
    IF buffer # <<>>
    THEN pushVariants(structure, section, buffer, currentBlock)
    ELSE structure

\* The loop over the lines from the i-th on, then the last flush.  Only the
\* БЛОК header and the flush after the loop pass currentBlock on.
RECURSIVE ParseLines(_, _, _, _, _, _)
ParseLines(lines, i, section, block, buffer, structure) ==
    IF i > Len(lines) THEN Flush(structure, section, buffer, block)
    ELSE
      LET line == Trim(lines[i])
          opened == SectionOf(line)
      IN  IF line = ""
          THEN ParseLines(lines, i + 1, section, block, buffer, structure)
          ELSE IF opened = "blockTitle"
          THEN LET flushed == Flush(structure, section, buffer, block)
                   added == [flushed EXCEPT
                                !.blocks = Append(@, [title |-> <<>>,
                                                      text |-> <<>>,
                                                      cta |-> <<>>])]
               IN  ParseLines(lines, i + 1, opened, Len(added.blocks), <<>>,
                              added)
          ELSE IF opened # "none"
          THEN ParseLines(lines, i + 1, opened, block, <<>>,
                          Flush(structure, section, buffer, 0))
          ELSE IF IsVariantLine(line)
          THEN ParseLines(lines, i + 1, section, block, Append(buffer, i),
                          structure)
          ELSE ParseLines(lines, i + 1, section, block, buffer, structure)

\* if (!output) return null: the draft of one empty line is the empty string.
parseEmailOutput(output) ==
    IF output = <<"">> THEN NullStructure
    ELSE ParseLines(output, 1, "null", 0, <<>>, EmptyStructure)

Call_parseEmailOutput ==
    Returns("parseEmailOutput", parseEmailOutput(call.arg))

----------------------------------------------------------------------------
(* surgicalRepair.js: surgicalRepair, an async function.  call.ret holds how *)
(* far the call has come: the generator calls made so far, and how it ended. *)

RepairCodes == {"EXACT_EQUALITY", "CHAR_LIMIT_EXCEEDED"}

RepairLocations == {"subject", "bannerTitle", "cta", "intro"}

\* What the generator answers a surgical prompt with.
RepairedFields == {"NEW"}

\* Mutant: the scope's requiresFullContext is not looked at.
surgicalTargetIgnoringScope(violation, currentOutput) ==
    IF extractField(currentOutput, violation.location) = <<>> THEN "null"
    ELSE violation.location

\* The field surgicalRepair goes on to repair, "null" where it returns null
\* before any generator call.
surgicalTarget(violation, currentOutput) ==
    LET scope == determineRepairScope(violation)
    IN  IF scope.requiresFullContext THEN "null"
        ELSE IF extractField(currentOutput, scope.field) = <<>> THEN "null"
        ELSE scope.field

Progress(n, k, out) == [calls |-> n, kind |-> k, output |-> out]

\* Up to `await callLLM(...)`.
surgicalRepair_Start ==
    /\ call.op = "surgicalRepair"
    /\ ~call.done
    /\ call.ret = <<>>
    /\ LET target == surgicalTarget(call.arg.violation, call.arg.currentOutput)
       IN  IF target = "null"
           THEN call' = [call EXCEPT !.done = TRUE,
                                     !.ret = Progress(0, "null", <<>>)]
           ELSE call' = [call EXCEPT !.ret = Progress(1, "awaiting", <<>>)]
    /\ UNCHANGED Session_vars

\* The generator answers: replaceField and return.
surgicalRepair_Resolve ==
    /\ call.op = "surgicalRepair"
    /\ ~call.done
    /\ call.ret # <<>>
    /\ \E repairedField \in RepairedFields :
         call' = [call EXCEPT
            !.done = TRUE,
            !.ret = Progress(call.ret.calls, "output",
                        replaceField(call.arg.currentOutput,
                            determineRepairScope(call.arg.violation).field,
                            repairedField))]
    /\ UNCHANGED Session_vars

\* The generator call rejects: so does surgicalRepair.
surgicalRepair_Reject ==
    /\ call.op = "surgicalRepair"
    /\ ~call.done
    /\ call.ret # <<>>
    /\ call' = [call EXCEPT !.done = TRUE,
                            !.ret = Progress(call.ret.calls, "rejected", <<>>)]
    /\ UNCHANGED Session_vars

surgicalRepair ==
    surgicalRepair_Start \/ surgicalRepair_Resolve \/ surgicalRepair_Reject

----------------------------------------------------------------------------
(* tieredKnowledge.js: selectRelevantKnowledge.  A knowledge base is the set *)
(* of the section names it holds a non-empty text for; the returned text is  *)
(* the list of the sections it is joined from (<<>> is the empty string).    *)

KnownCodes ==
    {"CHAR_LIMIT_EXCEEDED", "FORBIDDEN_WORD", "EMOJI_USAGE",
     "GEOGRAPHY_LABEL_MISUSE", "LOCATION_MISMATCH", "TRIGRAM_DUPLICATION",
     "EXACT_EQUALITY", "VARIANT_COUNT_INSUFFICIENT", "CTA_MISSING",
     "CTA_INVALID"}

VIOLATION_TO_KNOWLEDGE_MAP ==
    [c \in KnownCodes |->
        CASE c \in {"FORBIDDEN_WORD", "EMOJI_USAGE"} -> <<"SW_LEXICON_AND_BANS">>
          [] c \in {"GEOGRAPHY_LABEL_MISUSE", "LOCATION_MISMATCH"} ->
                <<"SW_GLOBAL_RULES_GEOGRAPHY">>
          [] c \in {"CTA_MISSING", "CTA_INVALID"} -> <<"SW_GLOBAL_RULES_CTA">>
          [] OTHER -> <<"SPEC_CHAR_LIMITS">>]

KnowledgeSections ==
    {"SPEC_CHAR_LIMITS", "SW_LEXICON_AND_BANS", "SW_GLOBAL_RULES_GEOGRAPHY",
     "SW_GLOBAL_RULES_CTA"}

\* knowledgeBase['FULL_KNOWLEDGE'] || ''
FullKnowledge(knowledgeBase) ==
    IF "FULL_KNOWLEDGE" \in knowledgeBase THEN <<"FULL_KNOWLEDGE">> ELSE <<>>

\* neededSections.add(section) for each section of the list: a Set keeps the
\* order of first insertion.
RECURSIVE AddAll(_, _, _)
AddAll(needed, sections, i) ==
    IF i > Len(sections) THEN needed
    ELSE AddAll(IF \E k \in 1..Len(needed) : needed[k] = sections[i]
                THEN needed ELSE Append(needed, sections[i]),
                sections, i + 1)

\* The first loop: [needed, hasUnknownViolation].
RECURSIVE CollectSections(_, _, _, _)
CollectSections(violations, i, needed, unknown) ==
    IF i > Len(violations) THEN [needed |-> needed, unknown |-> unknown]
    ELSE IF violations[i] \in KnownCodes
    THEN CollectSections(violations, i + 1,
             AddAll(needed, VIOLATION_TO_KNOWLEDGE_MAP[violations[i]], 1),
             unknown)
    ELSE CollectSections(violations, i + 1, needed, TRUE)

\* The second loop: the sections the knowledge base holds, in order.
RECURSIVE Combine(_, _, _)
Combine(needed, knowledgeBase, i) ==
    IF i > Len(needed) THEN <<>>
    ELSE (IF needed[i] \in knowledgeBase THEN <<needed[i]>> ELSE <<>>)
            \o Combine(needed, knowledgeBase, i + 1)

\* Mutant: a code outside the table is skipped.
selectRelevantKnowledgeSkippingUnknown(violations, knowledgeBase) ==
    IF Len(violations) = 0 THEN FullKnowledge(knowledgeBase)
    ELSE
      LET c == CollectSections(violations, 1, <<>>, FALSE)
      IN  IF Len(c.needed) = 0 THEN FullKnowledge(knowledgeBase)
          ELSE Combine(c.needed, knowledgeBase, 1)

\* violations is given by the codes of its violations.
selectRelevantKnowledge(violations, knowledgeBase) ==
    IF Len(violations) = 0 THEN FullKnowledge(knowledgeBase)
    ELSE
      LET c == CollectSections(violations, 1, <<>>, FALSE)
      IN  IF c.unknown THEN FullKnowledge(knowledgeBase)
          ELSE IF Len(c.needed) = 0 THEN FullKnowledge(knowledgeBase)
          ELSE Combine(c.needed, knowledgeBase, 1)

\* Largest batch of violations.
MaxBatch == 3

BatchCodes == KnownCodes \cup {"PARSE_FAILED"}

KnowledgeBases ==
    {KnowledgeSections \cup {"FULL_KNOWLEDGE"},
     KnowledgeSections,
     {"FULL_KNOWLEDGE", "SW_LEXICON_AND_BANS", "SW_GLOBAL_RULES_CTA"},
     {}}

Call_selectRelevantKnowledge ==
    Returns("selectRelevantKnowledge",
            selectRelevantKnowledge(call.arg.violations,
                                    call.arg.knowledgeBase))

----------------------------------------------------------------------------
(* The length checks of the two validators.  A text is given by the number   *)
(* of its characters (code points) and by how many of them lie outside the   *)
(* Basic Multilingual Plane (an emoji), each of which is two UTF-16 units.   *)

\* Longest text, in characters.
MaxPoints == 34

\* checkCharLimit(subject, 30, 'subject')
SubjectCharLimit == 30

\* LIMITS.push.title
PushTitleLimit == 32

Texts ==
    {t \in [points : 0..MaxPoints, astral : 0..2] : t.astral <= t.points}

\* Array.from(text).length
CodePoints(text) == text.points

\* text.length
CodeUnits(text) == text.points + text.astral

\* message `${length} > ${limit}`, suggestedFix `Сократите на ${length - limit}`
checkCharLimit(text, limit, location) ==
    IF CodeUnits(text) = 0 THEN <<>>
    ELSE IF CodePoints(text) > limit
    THEN <<[code |-> "CHAR_LIMIT_EXCEEDED", severity |-> "ERROR",
            location |-> location,
            message |-> <<CodePoints(text), limit>>,
            suggestedFix |-> CodePoints(text) - limit]>>
    ELSE <<>>

\* checkLengthLimits on one push variant's title: the message and the
\* suggested fix name the limit, the evidence the length.
checkPushTitle(title, location) ==
    IF CodeUnits(title) # 0 /\ CodeUnits(title) > PushTitleLimit
    THEN <<[code |-> "PUSH_TITLE_OVERLIMIT", severity |-> "ERROR",
            location |-> location,
            message |-> <<PushTitleLimit>>,
            evidence |-> CodeUnits(title),
            suggestedFix |-> PushTitleLimit]>>
    ELSE <<>>

\* checkCharLimit(preheader, 75, 'preheader')
PreheaderCharLimit == 75

\* promptComposer.js: what the brief's [LIMIT field<=N] directives give; a
\* brief is given by the N of its directive for each field, -1 when it has
\* none.
DefaultLimits == [subject |-> 30, preheader |-> 75]

DeclaredLimits == {-1, 25, 32, 80}

extractSpecRequirements(brief) ==
    [limits |->
        [f \in {"subject", "preheader"} |->
            IF brief[f] = -1 THEN DefaultLimits[f] ELSE brief[f]]]

\* The limits the generation and repair prompts state:
\* `Subject ≤ ${requirements.limits.subject} chars; Preheader ≤ ...`
PromptLimits(requirements) == requirements.limits

\* The character-limit checks of validateEmail(output, parsedBrief, spec)
\* on one subject and one preheader variant: spec.limits is not read.
checkEmailLimits(doc, spec) ==
    checkCharLimit(doc.subject, SubjectCharLimit, "subject")
    \o checkCharLimit(doc.preheader, PreheaderCharLimit, "preheader")

\* Texts around the preheader limit as well.
LimitTexts ==
    Texts \cup {[points |-> PreheaderCharLimit + k, astral |-> 0] : k \in 0..6}

\* generateEmail: the requirements extracted from the brief are given to the
\* prompt composer and to the validator.
Call_validateEmailLimits ==
    LET requirements == extractSpecRequirements(call.arg.brief)
    IN  Returns("validateEmailLimits",
                [requirements |-> requirements,
                 prompt |-> PromptLimits(requirements),
                 violations |-> checkEmailLimits(call.arg.doc, requirements)])

LengthArgs ==
    {[text |-> t, limit |-> l, location |-> "subject"] :
        t \in Texts, l \in {SubjectCharLimit, PushTitleLimit}}

Call_checkCharLimit ==
    Returns("checkCharLimit",
            checkCharLimit(call.arg.text, call.arg.limit, call.arg.location))

Call_checkLengthLimits ==
    Returns("checkLengthLimits",
            checkPushTitle(call.arg.text, call.arg.location))

----------------------------------------------------------------------------
(* checkForbiddenWords.  A text is a list of phrases joined by single        *)
(* spaces; offsets and windows are counted in characters as the code does.   *)
(*   "K"  "купить"       "PK" "покупка"      "D"  "дегустация"               *)
(*   "DP" "мероприятие с дегустацией вин"    "E"  "в винотеке"               *)
(*   "B"  "букет"        "LB" "VIPбукет"     "PV" "послевкусие"              *)
(*   "F"  forty characters of other text                                     *)

Phrases == {"K", "PK", "D", "DP", "E", "B", "LB", "PV", "F"}

\* Longest text, in phrases.
MaxPhrases == 4

PhraseLen(p) ==
    CASE p = "K"  -> 6
      [] p = "PK" -> 7
      [] p = "D"  -> 10
      [] p = "DP" -> 29
      [] p = "E"  -> 10
      [] p = "B"  -> 5
      [] p = "LB" -> 8
      [] p = "PV" -> 11
      [] p = "F"  -> 40

\* Where the stem starts inside the phrase: 'дегустац' in "DP" follows
\* "мероприятие с ".
StemAt(p) == IF p = "DP" THEN 14 ELSE 0

\* The length of "в винотек", the text /в\s+винотек/ matches in "E".
ExceptionLen == 9

RECURSIVE Offset(_, _)
Offset(text, i) ==
    IF i = 1 THEN 0 ELSE Offset(text, i - 1) + PhraseLen(text[i - 1]) + 1

TextLength(text) ==
    IF Len(text) = 0 THEN 0
    ELSE Offset(text, Len(text)) + PhraseLen(text[Len(text)])

Max(a, b) == IF a > b THEN a ELSE b

Min(a, b) == IF a < b THEN a ELSE b

\* lowerText.indexOf(stem), text.match(pattern).index: the offset of the
\* first occurrence, -1 if there is none.
FirstIndexOf(text, holders) ==
    IF \E i \in 1..Len(text) : text[i] \in holders
    THEN LET i == CHOOSE i \in 1..Len(text) :
                    /\ text[i] \in holders
                    /\ \A j \in 1..(i - 1) : text[j] \notin holders
         IN  Offset(text, i) + StemAt(text[i])
    ELSE -1

\* /в\s+винотек/i.test(text.substring(from, to))
ExceptionIn(text, from, to) ==
    \E i \in 1..Len(text) :
        /\ text[i] = "E"
        /\ from <= Offset(text, i)
        /\ Offset(text, i) + ExceptionLen <= to

Forbidden(c, location) ==
    [code |-> c, severity |-> "ERROR", location |-> location]

\* The check of a stem whose exception is looked for around the first
\* occurrence, from 20 characters before it to `after` characters after.
checkFirstOccurrence(text, holders, after, c, location) ==
    LET index == FirstIndexOf(text, holders)
    IN  IF index = -1 THEN <<>>
        ELSE IF ExceptionIn(text, Max(0, index - 20),
                            Min(TextLength(text), index + after))
        THEN <<>>
        ELSE <<Forbidden(c, location)>>

\* /\bбукет/i: without the u flag \b is a boundary of ASCII word
\* characters, so it matches only after a Latin letter, a digit or "_".
checkForbiddenWords(text, location) ==
    IF Len(text) = 0 THEN <<>>
    ELSE
      (IF (\E i \in 1..Len(text) : text[i] \in {"D", "DP"})
            /\ ~(\E i \in 1..Len(text) : text[i] = "DP")
       THEN <<Forbidden("FORBIDDEN_DEGUSTATSIYA", location)>> ELSE <<>>)
      \o checkFirstOccurrence(text, {"K"}, 30, "FORBIDDEN_KUPIT", location)
      \o checkFirstOccurrence(text, {"PK"}, 40, "FORBIDDEN_POKUPKA", location)
      \o (IF \E i \in 1..Len(text) : text[i] = "LB"
          THEN <<Forbidden("FORBIDDEN_BUKET", location)>> ELSE <<>>)
      \o (IF \E i \in 1..Len(text) : text[i] = "PV"
          THEN <<Forbidden("FORBIDDEN_POSLEVKUSIE", location)>> ELSE <<>>)

Call_checkForbiddenWords ==
    Returns("checkForbiddenWords",
            checkForbiddenWords(call.arg.text, call.arg.location))

----------------------------------------------------------------------------
(* validateMultiformat, check by check.  Each entry is one                   *)
(* `violations.push({code, severity, ...}); stats.<counter>++` of the        *)
(* validator, in the order the checks run.                                   *)

MultiformatChecks ==
    << [code |-> "PUSH_TITLE_OVERLIMIT",          severity |-> "ERROR",   counter |-> "errors"],
       [code |-> "PUSH_SUBTITLE_OVERLIMIT",       severity |-> "ERROR",   counter |-> "errors"],
       [code |-> "SMS_TEXT_OVERLIMIT",            severity |-> "ERROR",   counter |-> "errors"],
       [code |-> "YANDEX_TEXT_UNDERLIMIT",        severity |-> "WARNING", counter |-> "warnings"],
       [code |-> "YANDEX_TEXT_OVERLIMIT",         severity |-> "ERROR",   counter |-> "errors"],
       [code |-> "ONBOARDING_TITLE_OVERLIMIT",    severity |-> "ERROR",   counter |-> "errors"],
       [code |-> "ONBOARDING_SUBTITLE_OVERLIMIT", severity |-> "ERROR",   counter |-> "errors"],
       [code |-> "LP_TITLE_OVERLIMIT",            severity |-> "ERROR",   counter |-> "errors"],
       [code |-> "LP_DESC_OVERLIMIT",             severity |-> "ERROR",   counter |-> "errors"],
       [code |-> "LP_DESC_OVER_RECOMMENDED",      severity |-> "WARNING", counter |-> "warnings"],
       [code |-> "STICKY_TEXT_OVERLIMIT",         severity |-> "ERROR",   counter |-> "errors"],
       [code |-> "STICKY_TIMER_TEXT_OVERLIMIT",   severity |-> "ERROR",   counter |-> "errors"],
       [code |-> "TICKER_TEXT_OVERLIMIT",         severity |-> "ERROR",   counter |-> "errors"],
       [code |-> "SMS_ALCOHOL_MENTION",           severity |-> "ERROR",   counter |-> "errors"],
       [code |-> "STICKY_TIMER_MISSING_TAG",      severity |-> "ERROR",   counter |-> "errors"],
       [code |-> "ABBREVIATED_WORD",              severity |-> "WARNING", counter |-> "warnings"],
       [code |-> "FORBIDDEN_NAPITOK",             severity |-> "ERROR",   counter |-> "errors"],
       [code |-> "FORBIDDEN_KUPIT_CTA",           severity |-> "ERROR",   counter |-> "errors"],
       [code |-> "INCONSISTENT_DISCOUNTS",        severity |-> "WARNING", counter |-> "warnings"] >>

\* Most checks of one draft whose condition holds at once.
MaxFired == 2

\* Most variants of one section in which a check's condition holds.
MaxTimes == 2

Repeat(x, n) == [i \in 1..n |-> x]

\* The checks from the i-th on, run on the findings.
RECURSIVE RunMultiformatChecks(_, _, _, _)
RunMultiformatChecks(checks, i, found, acc) ==
    IF i > Len(checks) THEN acc
    ELSE IF i \notin found.fired
    THEN RunMultiformatChecks(checks, i + 1, found, acc)
    ELSE
      LET c == checks[i]
          pushed == Repeat([code |-> c.code, severity |-> c.severity,
                            location |-> "output"], found.times)
      IN  RunMultiformatChecks(checks, i + 1, found,
            [violations |-> acc.violations \o pushed,
             errors |-> acc.errors
                          + (IF c.counter = "errors" THEN found.times ELSE 0),
             warnings |-> acc.warnings
                          + (IF c.counter = "warnings" THEN found.times ELSE 0)])

\* const isValid = stats.errors === 0; return {isValid, violations, stats}
validateMultiformatChecks(found) ==
    LET ran == RunMultiformatChecks(MultiformatChecks, 1, found,
                   [violations |-> <<>>, errors |-> 0, warnings |-> 0])
    IN  [valid |-> ran.errors = 0, violations |-> ran.violations,
         stats |-> [errors |-> ran.errors, warnings |-> ran.warnings]]

Call_validateMultiformat ==
    Returns("validateMultiformat", validateMultiformatChecks(call.arg))

----------------------------------------------------------------------------
(* validateEmail, check by check, on a draft given by what parseEmailOutput  *)
(* extracts from it and by where the offending text stands.                  *)

\* The fields for which the default requirements declare a variant count.
CountedFields ==
    {"subject", "preheader", "bannerTitle", "bannerSubtitle", "introCTA"}

\* Most variant lines under one header.
MaxVariants == 3

\* spec.variantCounts || { subject: 3, preheader: 3, bannerTitle: 3,
\*                         bannerSubtitle: 3, introCTA: 3 }
DefaultVariantCounts == [f \in CountedFields |-> 3]

RequiredVariantCounts ==
    {DefaultVariantCounts, [f \in CountedFields |-> 2]}

\* output: "empty" is the empty string, "text" any other text.
\* headers: some line of the text is a section header.
\* count: the variant lines extracted into each field.
\* bannedInSubject: a subject variant holds the banned word "купить".
\* bannedInRaw: the word stands in the text, outside every extracted variant.
\* service: the text holds a service phrase ("PREFLIGHT").
\* longBlock: a block has more than two paragraphs.
EmailDocs ==
    {[output |-> "empty", headers |-> FALSE,
      count |-> [f \in CountedFields |-> 0], bannedInSubject |-> FALSE,
      bannedInRaw |-> FALSE, service |-> FALSE, longBlock |-> FALSE]}
    \cup
    {[output |-> "text", headers |-> FALSE,
      count |-> [f \in CountedFields |-> 0], bannedInSubject |-> FALSE,
      bannedInRaw |-> b, service |-> sv, longBlock |-> FALSE] :
        b \in BOOLEAN, sv \in BOOLEAN}
    \cup
    {[output |-> "text", headers |-> TRUE,
      count |-> c, bannedInSubject |-> b,
      bannedInRaw |-> FALSE, service |-> sv, longBlock |-> lb] :
        c \in [CountedFields -> 0..MaxVariants],
        b \in BOOLEAN, sv \in BOOLEAN, lb \in BOOLEAN}

Found(c, s, l, m) ==
    [code |-> c, severity |-> s, location |-> l, message |-> m]

\* if (structure.<field>.length < requiredVariants.<field>) push(...), with
\* the message `... ${observed} < ${required}`.
checkVariantCount(doc, required, field) ==
    IF doc.count[field] < required[field]
    THEN <<Found("VARIANT_COUNT_INSUFFICIENT", "ERROR", field,
                 <<doc.count[field], required[field]>>)>>
    ELSE <<>>

\* The violation list of validateEmail on a text parseEmailOutput accepts.
EmailViolations(doc, required) ==
    checkVariantCount(doc, required, "subject")
    \o checkVariantCount(doc, required, "preheader")
    \o checkVariantCount(doc, required, "bannerTitle")
    \o (IF doc.bannedInSubject /\ doc.count["subject"] > 0
        THEN <<Found("FORBIDDEN_KUPIT", "ERROR", "subject", <<>>)>>
        ELSE <<>>)
    \o (IF doc.longBlock
        THEN <<Found("BLOCK_TOO_LONG", "WARNING", "blocks[0]", <<>>)>>
        ELSE <<>>)
    \o (IF doc.service
        THEN <<Found("SERVICE_PHRASE_DETECTED", "ERROR", "output", <<>>)>>
        ELSE <<>>)

\* Mutant: the verdict counts every violation, whatever its severity.
EmailVerdictAnySeverity(violations) == Len(violations) = 0

\* valid: violations.filter(v => v.severity === Severity.ERROR).length === 0
EmailVerdict(violations) == ErrorCount(violations) = 0

\* parseEmailOutput returns null only for `!output`; validateEmail then
\* returns PARSE_FAILED alone.
validateEmailChecks(doc, required) ==
    IF doc.output = "empty"
    THEN [valid |-> FALSE,
          violations |-> <<Found("PARSE_FAILED", "ERROR", "output", <<>>)>>]
    ELSE [valid |-> EmailVerdict(EmailViolations(doc, required)),
          violations |-> EmailViolations(doc, required)]

Call_validateEmail ==
    Returns("validateEmail",
            validateEmailChecks(call.arg.doc, call.arg.required))

----------------------------------------------------------------------------
(* Specifications *)

Next == generateEmail \/ generateMultiformat

\* generateEmail with the attempt budget as a parameter of the session.
InitBudget ==
    /\ fn = "generateEmail"
    /\ enableRepairLoop = TRUE
    /\ InitCommon
    /\ maxAttempts \in DEFAULT_MAX_REPAIR_ATTEMPTS..MaxBudget

Spec == Init /\ [][Next]_vars

SpecBudget == InitBudget /\ [][generateEmail]_vars

\* The event loop runs every continuation and the generator settles every call.
FairSpec == Spec /\ WF_vars(Next)

\* determineRepairScope on every violation of ScopeArgs.
InitScope ==
    /\ Idle
    /\ call \in {Pending("determineRepairScope", v) : v \in ScopeArgs}

SpecScope == InitScope /\ [][Call_determineRepairScope]_vars

\* replaceField on every draft of up to MaxLines lines and every field.
InitSpan ==
    /\ Idle
    /\ \E n \in 1..MaxLines :
         \E d \in [1..n -> LineKinds], f \in SpanFields :
            call = Pending("replaceField",
                           [output |-> d, fieldName |-> f,
                            newContent |-> "NEW"])

SpecSpan == InitSpan /\ [][Call_replaceField]_vars

\* generateViolationSignature on every two lists of up to MaxViolations
\* violations.
InitSignature ==
    /\ Idle
    /\ \E n \in 0..MaxViolations, m \in 0..MaxViolations :
         \E a \in [1..n -> SignedViolations], b \in [1..m -> SignedViolations] :
            call = Pending("generateViolationSignature",
                           [first |-> a, second |-> b])

SpecSignature == InitSignature /\ [][Call_generateViolationSignature]_vars

\* extractField on every draft of up to MaxParsedLines lines, the lines
\* drawn from those the structure extractor distinguishes.
InitHeaders ==
    /\ Idle
    /\ \E n \in 1..MaxParsedLines :
         \E d \in [1..n -> HeaderLineKinds], f \in validLocations :
            call = Pending("extractField", [output |-> d, fieldName |-> f])

SpecHeaders == InitHeaders /\ [][Call_extractField]_vars

\* parseEmailOutput on every draft of up to MaxParsedLines lines.
InitParse ==
    /\ Idle
    /\ \E n \in 1..MaxParsedLines : \E d \in [1..n -> HeaderLineKinds] :
            call = Pending("parseEmailOutput", d)

SpecParse == InitParse /\ [][Call_parseEmailOutput]_vars

\* surgicalRepair on every draft of up to MaxLines lines and every violation
\* of RepairCodes at RepairLocations.
InitSurgical ==
    /\ Idle
    /\ \E n \in 1..MaxLines :
         \E d \in [1..n -> LineKinds], c \in RepairCodes,
            l \in RepairLocations :
            call = Pending("surgicalRepair",
                           [violation |-> Violation(c, "ERROR", l),
                            currentOutput |-> d])

SpecSurgical == InitSurgical /\ [][surgicalRepair]_vars

\* selectRelevantKnowledge on every batch of up to MaxBatch violations.
InitKnowledge ==
    /\ Idle
    /\ \E n \in 0..MaxBatch :
         \E v \in [1..n -> BatchCodes], kb \in KnowledgeBases :
            call = Pending("selectRelevantKnowledge",
                           [violations |-> v, knowledgeBase |-> kb])

SpecKnowledge == InitKnowledge /\ [][Call_selectRelevantKnowledge]_vars

\* The length checks on every text of Texts.
InitLength ==
    /\ Idle
    /\ call \in {Pending("checkCharLimit", a) : a \in LengthArgs}
            \cup {Pending("checkLengthLimits",
                          [text |-> t, limit |-> PushTitleLimit,
                           location |-> "push_announce"]) : t \in Texts}

NextLength == Call_checkCharLimit \/ Call_checkLengthLimits

SpecLength == InitLength /\ [][NextLength]_vars

\* checkForbiddenWords on every text of up to MaxPhrases phrases.
InitWords ==
    /\ Idle
    /\ \E n \in 0..MaxPhrases : \E t \in [1..n -> Phrases] :
            call = Pending("checkForbiddenWords",
                           [text |-> t, location |-> "subject"])

SpecWords == InitWords /\ [][Call_checkForbiddenWords]_vars

\* The limits of a brief and the limit checks of validateEmail, on every
\* brief of DeclaredLimits and every subject and preheader of LimitTexts.
InitLimits ==
    /\ Idle
    /\ \E ls \in DeclaredLimits, lp \in DeclaredLimits :
         \E s \in LimitTexts, p \in LimitTexts :
            /\ s.astral = 0 \/ p.astral = 0
            /\ call = Pending("validateEmailLimits",
                              [brief |-> [subject |-> ls, preheader |-> lp],
                               doc |-> [subject |-> s, preheader |-> p]])

SpecLimits == InitLimits /\ [][Call_validateEmailLimits]_vars

\* validateEmail on every draft of EmailDocs under each requirement, and
\* validateMultiformat on every draft in which at most MaxFired of the checks
\* find their condition true, each in the same number of variants.
InitValidate ==
    /\ Idle
    /\ \/ \E d \in EmailDocs, r \in RequiredVariantCounts :
            call = Pending("validateEmail", [doc |-> d, required |-> r])
       \/ \E f \in SUBSET (1..Len(MultiformatChecks)), t \in 1..MaxTimes :
            /\ Cardinality(f) <= MaxFired
            /\ call = Pending("validateMultiformat",
                              [fired |-> f, times |-> t])

NextValidate == Call_validateEmail \/ Call_validateMultiformat

SpecValidate == InitValidate /\ [][NextValidate]_vars

----------------------------------------------------------------------------
(* The session as a function of the generator's responses: the orchestrators *)
(* with `onProgress = null`, run on a given sequence of responses.  "pending" *)
(* is a session suspended on a call for which the sequence has no response.  *)

Outcome(calls, at, r, kind) ==
    [calls |-> calls, pc |-> at, result |-> r, errorKind |-> kind]

Validate(f, d) ==
    IF f = "generateEmail" THEN validateEmail(d) ELSE validateMultiformat(d)

CallOf(st, kind) ==
    [attempt |-> st.attempt, kind |-> kind, draft |-> st.lastDraft,
     violations |-> st.lastValidation.violations]

\* The statements after the repair loop.
AfterLoop(f, budget, st) ==
    Outcome(st.calls, "done",
            IF f = "generateEmail"
            THEN BestResult(st.attemptHistory)
            ELSE LastResult(st.lastDraft, st.lastValidation, budget),
            "none")

\* The repair loop from iteration st.attempt on.
RECURSIVE RepairLoop(_, _, _, _)
RepairLoop(f, budget, resps, st) ==
    IF st.attempt > budget THEN AfterLoop(f, budget, st)
    ELSE
      LET calls == Append(st.calls, CallOf(st, "repair"))
      IN  IF Len(resps) < Len(calls)
          THEN Outcome(calls, "pending", NoResult, "none")
          ELSE
            LET r == resps[Len(calls)]
            IN  IF r = "fail"
                THEN RepairLoop(f, budget, resps,
                        [st EXCEPT !.attempt = @ + 1, !.calls = calls])
                ELSE IF ValidatorThrows(r)
                THEN RepairLoop(f, budget, resps,
                        [st EXCEPT !.attempt = @ + 1, !.calls = calls,
                                   !.lastDraft = r])
                ELSE
                  LET v == Validate(f, r)
                      history == Append(st.attemptHistory, Entry(st.attempt, r, v))
                      next == [attempt |-> st.attempt, lastDraft |-> r,
                               lastValidation |-> v, attemptHistory |-> history,
                               calls |-> calls]
                  IN  IF v.valid
                      THEN Outcome(calls, "done",
                                   IF f = "generateEmail"
                                   THEN SuccessResult(st.attempt, r, v)
                                   ELSE RepairedResult(st.attempt, r),
                                   "none")
                      ELSE IF f = "generateEmail"
                              /\ ViolationsRepeat(st.attempt, history, v)
                      THEN AfterLoop(f, budget, next)
                      ELSE RepairLoop(f, budget, resps,
                                      [next EXCEPT !.attempt = @ + 1])

\* Attempt 1, then the loop.
SessionOutcome(f, enable, budget, resps) ==
    LET calls == <<[attempt |-> 1, kind |-> "generation", draft |-> NullDraft,
                    violations |-> NullValidation.violations]>>
    IN  IF resps = <<>>
        THEN Outcome(calls, "pending", NoResult, "none")
        ELSE
          LET r == resps[1]
          IN  IF r = "fail" \/ ValidatorThrows(r)
              THEN Outcome(calls, "error", NoResult, "initial")
              ELSE
                LET v == Validate(f, r)
                    st == [attempt |-> 2, lastDraft |-> r, lastValidation |-> v,
                           attemptHistory |-> <<Entry(1, r, v)>>, calls |-> calls]
                IN  IF f = "generateEmail"
                    THEN IF v.valid
                         THEN Outcome(calls, "done", SuccessResult(1, r, v), "none")
                         ELSE RepairLoop(f, budget, resps, st)
                    ELSE IF v.valid \/ ~enable
                         THEN Outcome(calls, "done", FirstResult(r, v), "none")
                         ELSE RepairLoop(f, budget, resps, st)

----------------------------------------------------------------------------
(* Properties *)

HistErrors(i) == ErrorCount(attemptHistory[i].validation.violations)

HistSignature(i) ==
    generateViolationSignature(attemptHistory[i].validation.violations)

Ended == pc \in {"done", "error"}

\* C1: when a generateEmail session returns a non-success result, the
\* returned content is the draft of the history entry with the fewest
\* ERROR-severity violations, and of the earliest such entry on a tie;
\* WARNING violations are not counted.
C1_BestAttemptReturned ==
    (fn = "generateEmail" /\ pc = "done" /\ ~result.success) =>
        \E i \in 1..Len(attemptHistory) :
            /\ result.content = attemptHistory[i].draft
            /\ \A j \in 1..Len(attemptHistory) :
                  /\ HistErrors(j) >= HistErrors(i)
                  /\ j < i => HistErrors(j) > HistErrors(i)

\* ERROR counts [3, 1, 2] over attempts 1..3 select attempt 2.
C1_Witness ==
    /\ fn = "generateEmail"
    /\ pc = "done"
    /\ ~result.success
    /\ Len(attemptHistory) = 3
    /\ <<HistErrors(1), HistErrors(2), HistErrors(3)>> = <<3, 1, 2>>
    /\ result.content = attemptHistory[2].draft

C3_StopsAfterAnyRepeat ==
    fn = "generateEmail" =>
        \A i \in 2..Len(attemptHistory) :
            (/\ ~attemptHistory[i].validation.valid
             /\ HistSignature(i) = HistSignature(i - 1)) =>
                \A c \in 1..Len(callLog) :
                    callLog[c].attempt <= attemptHistory[i].attempt

\* C3 amended: the signatures are compared only from the second repair on
\* (k >= 3); after such an attempt whose invalid draft has the signature of
\* the previous history entry, no further generator call is made.
C3_StopsAfterRepeatFromThird ==
    fn = "generateEmail" =>
        /\ pc = "stopRepeating" => attempt >= 3
        /\ \A i \in 2..Len(attemptHistory) :
              (/\ attemptHistory[i].attempt >= 3
               /\ ~attemptHistory[i].validation.valid
               /\ HistSignature(i) = HistSignature(i - 1)) =>
                  \A c \in 1..Len(callLog) :
                      callLog[c].attempt <= attemptHistory[i].attempt

\* The loop was left by `break` at attempt 3 and the session returned.
C3_Witness ==
    /\ fn = "generateEmail"
    /\ pc = "done"
    /\ attempt = 3
    /\ Len(attemptHistory) = 3
    /\ HistSignature(3) = HistSignature(2)
    /\ HistSignature(2) # HistSignature(1)

C5_DisabledSingleAttempt ==
    ~enableRepairLoop =>
        /\ Len(callLog) <= 1
        /\ \A c \in 1..Len(callLog) : callLog[c].kind = "generation"
        /\ pc \notin {"loop", "awaitRepair", "validateRepair", "returnRepaired",
                      "reportProgress", "stopRepeating"}
        /\ pc = "done" =>
              /\ Len(callLog) = 1
              /\ Len(attemptHistory) = 1
              /\ result.content = attemptHistory[1].draft
              /\ result.success = attemptHistory[1].validation.valid
              /\ result.attempts = 1

C5_Witness ==
    /\ ~enableRepairLoop
    /\ pc = "done"
    /\ ~result.success
    /\ result.content = "two"

ResolvesToField(violations, f) ==
    /\ violations # <<>>
    /\ \A i \in 1..Len(violations) :
          determineRepairScope(violations[i])
            = [field |-> f, requiresFullContext |-> FALSE]

\* C7: a repair attempt whose violation set resolves to a single field that
\* stands in the current draft is a surgical repair, not a full regeneration.
C7_SurgicalWhenSingleField ==
    \A c \in 1..Len(callLog) :
        (/\ fn = "generateEmail"
         /\ callLog[c].attempt >= 2
         /\ \E f \in DraftFields(callLog[c].draft) :
               ResolvesToField(callLog[c].violations, f)) =>
            callLog[c].kind = "surgical"

C9_CallbackHasNoEffect ==
    Ended =>
        SessionOutcome(fn, enableRepairLoop, maxAttempts, responses)
          = Outcome(callLog, pc, result, errorKind)

RepeatingSignature ==
    generateViolationSignature(
        <<Violation("FORBIDDEN_KUPIT", "ERROR", "preheader"),
          Violation("CHAR_LIMIT_EXCEEDED", "ERROR", "subject")>>)

AlwaysRepeating ==
    \A i \in 1..Len(responses) :
        /\ responses[i] \in Drafts
        /\ ErrorCount(DraftViolations(responses[i])) > 0
        /\ generateViolationSignature(DraftViolations(responses[i]))
             = RepeatingSignature

C11_MultiformatReturnsBest ==
    (/\ fn = "generateMultiformat"
     /\ pc = "done"
     /\ ~result.success
     /\ ~cbThrew
     /\ \A i \in 1..Len(responses) : responses[i] \in Drafts) =>
        \E i \in 1..Len(attemptHistory) :
            /\ result.content = attemptHistory[i].draft
            /\ result.violations = attemptHistory[i].validation.violations
            /\ \A j \in 1..Len(attemptHistory) :
                  /\ HistErrors(j) >= HistErrors(i)
                  /\ j < i => HistErrors(j) > HistErrors(i)

\* C13: determineRepairScope returns {all, true} for a cross-field code
\* whatever the location; for any other code {location, false} when the
\* location is one of the known fields and {all, true} otherwise; and the
\* scope requires the full context exactly when its field is 'all'.
C13_ScopeByCodeThenLocation ==
    Returned("determineRepairScope") =>
        LET v == call.arg
            scope == call.ret
            whole == [field |-> "all", requiresFullContext |-> TRUE]
        IN  /\ v.code \in {"EXACT_EQUALITY", "TRIGRAM_DUPLICATION",
                           "CROSS_FIELD_SIMILARITY"} => scope = whole
            /\ v.code \notin {"EXACT_EQUALITY", "TRIGRAM_DUPLICATION",
                              "CROSS_FIELD_SIMILARITY"} =>
                  IF v.location \in {"subject", "preheader", "bannerTitle",
                                     "bannerSubtitle", "body", "cta"}
                  THEN scope = [field |-> v.location,
                                requiresFullContext |-> FALSE]
                  ELSE scope = whole
            /\ scope.requiresFullContext <=> (scope.field = "all")

\* A cross-field code located at a known field still resolves to 'all'.
C13_Witness ==
    /\ Returned("determineRepairScope")
    /\ call.arg.code = "TRIGRAM_DUPLICATION"
    /\ call.arg.location = "subject"
    /\ call.ret.field = "all"

\* C14 as stated: determineRepairScope returns a scope for every violation,
\* and for every violation whose code is none of the codes the validators
\* and the resolver know it returns {all, true} whatever the location.
C14_UnlistedCodeIsWholeDraft ==
    Returned("determineRepairScope") =>
        /\ call.ret.field \in {"all", call.arg.location}
        /\ call.arg.code = "UNLISTED_CODE" =>
              call.ret = [field |-> "all", requiresFullContext |-> TRUE]

\* C14 amended: determineRepairScope returns a well-formed scope for every
\* violation (field 'all' or a known field, requiresFullContext a boolean),
\* and a violation whose code is in no table resolves by its location alone:
\* {location, false} at a known field, {all, true} elsewhere.
C14_ScopeTotalUnlistedByLocation ==
    Returned("determineRepairScope") =>
        /\ call.ret.field \in {"all", "subject", "preheader", "bannerTitle",
                               "bannerSubtitle", "body", "cta"}
        /\ call.ret.requiresFullContext \in BOOLEAN
        /\ call.arg.code = "UNLISTED_CODE" =>
              call.ret = IF call.arg.location \in
                              {"subject", "preheader", "bannerTitle",
                               "bannerSubtitle", "body", "cta"}
                         THEN [field |-> call.arg.location,
                               requiresFullContext |-> FALSE]
                         ELSE [field |-> "all", requiresFullContext |-> TRUE]

C14_Witness ==
    /\ Returned("determineRepairScope")
    /\ call.arg.code = "UNLISTED_CODE"
    /\ call.arg.location = "subject"
    /\ call.ret = [field |-> "subject", requiresFullContext |-> FALSE]

SeverityCount(violations, severity) ==
    Cardinality({i \in 1..Len(violations) : violations[i].severity = severity})

\* C12: the verdict of validateEmail and of validateMultiformat is true
\* exactly when the returned list holds no ERROR violation, so that WARNING
\* violations never make a draft invalid; and validateMultiformat's
\* stats.errors and stats.warnings are the numbers of ERROR and WARNING
\* violations returned.
C12_VerdictIffNoError ==
    /\ Returned("validateEmail") =>
          (call.ret.valid <=> SeverityCount(call.ret.violations, "ERROR") = 0)
    /\ Returned("validateMultiformat") =>
          /\ call.ret.valid <=> SeverityCount(call.ret.violations, "ERROR") = 0
          /\ call.ret.stats.errors = SeverityCount(call.ret.violations, "ERROR")
          /\ call.ret.stats.warnings
               = SeverityCount(call.ret.violations, "WARNING")

\* A multiformat draft with warnings only is valid.
C12_Witness ==
    /\ Returned("validateMultiformat")
    /\ call.ret.valid
    /\ call.ret.stats.warnings = 4
    /\ Len(call.ret.violations) = 4

\* Lines a..b of d, each without its surrounding white space, and without
\* the blank lines at the end.
SpanText(d, a, b) == TrimEnd([k \in 1..(b - a + 1) |-> Trim(d[a + k - 1])])

\* C15: when extractField locates the field, replaceField(d, f, s) is d's
\* lines before the span unchanged, then s, then one blank line, then d's
\* lines after the span unchanged, and the lines removed are the lines whose
\* text extractField(d, f) returns; when the header is not located the
\* draft is returned unchanged.
C15_ReplaceIsLocal ==
    Returned("replaceField") =>
        LET d == call.arg.output
            f == call.arg.fieldName
            s == call.arg.newContent
            span == extractField(d, f)
        IN  IF span = <<>>
            THEN call.ret = d
            ELSE \E a \in 1..Len(d) : \E b \in a..Len(d) :
                    /\ call.ret = SubSeq(d, 1, a - 1) \o <<s, "">>
                                    \o SubSeq(d, b + 1, Len(d))
                    /\ span = SpanText(d, a, b)
                    /\ PatternTest(f, Trim(d[a]))
                    /\ \A k \in (a + 1)..b : ~IsNewSection(Trim(d[k]))
                    /\ b < Len(d) => IsNewSection(Trim(d[b + 1]))

\* A span in the middle of the draft, with text before and after it.
C15_Witness ==
    /\ Returned("replaceField")
    /\ call.arg.output = <<"SUBJ", "PRE", " var", "CTA">>
    /\ call.arg.fieldName = "preheader"
    /\ call.ret = <<"SUBJ", "NEW", "", "CTA">>

\* C16: selectRelevantKnowledge returns the sections mapped from the codes
\* of the batch, each once whatever the number or order of the violations
\* needing it, and nothing else; a section the knowledge base holds no text
\* for adds nothing.  When a code is absent from the table, or no section is
\* needed, it returns the full knowledge base.
C16_UnionOrFullKnowledge ==
    Returned("selectRelevantKnowledge") =>
        LET v == call.arg.violations
            kb == call.arg.knowledgeBase
            codes == {v[i] : i \in 1..Len(v)}
            union == UNION {{VIOLATION_TO_KNOWLEDGE_MAP[c][k] :
                                k \in 1..Len(VIOLATION_TO_KNOWLEDGE_MAP[c])} :
                            c \in codes \cap KnownCodes}
        IN  IF codes \ KnownCodes # {} \/ union = {}
            THEN call.ret = FullKnowledge(kb)
            ELSE /\ {call.ret[k] : k \in 1..Len(call.ret)} = union \cap kb
                 /\ Len(call.ret) = Cardinality(union \cap kb)

\* Three violations, two of them needing the same section.
C16_Witness ==
    /\ Returned("selectRelevantKnowledge")
    /\ call.arg.violations =
          <<"CHAR_LIMIT_EXCEEDED", "FORBIDDEN_WORD", "EXACT_EQUALITY">>
    /\ call.arg.knowledgeBase = KnowledgeSections \cup {"FULL_KNOWLEDGE"}
    /\ call.ret = <<"SPEC_CHAR_LIMITS", "SW_LEXICON_AND_BANS">>

\* The violations of the list with the given code.
WithCode(violations, c) ==
    {i \in 1..Len(violations) : violations[i].code = c}

\* C17: on a draft without any section header, the empty draft included,
\* validateEmail returns an invalid verdict with a PARSE_FAILED ERROR, and
\* reports the text-only violations of the raw text as well: the banned
\* word and the service phrase.
C17_HeaderlessParseFailed ==
    (Returned("validateEmail") /\ ~call.arg.doc.headers) =>
        /\ ~call.ret.valid
        /\ \E i \in WithCode(call.ret.violations, "PARSE_FAILED") :
              call.ret.violations[i].severity = "ERROR"
        /\ call.arg.doc.bannedInRaw =>
              WithCode(call.ret.violations, "FORBIDDEN_KUPIT") # {}
        /\ call.arg.doc.service =>
              WithCode(call.ret.violations, "SERVICE_PHRASE_DETECTED") # {}

\* C18: for each of subject, preheader, bannerTitle, bannerSubtitle and
\* introCTA, validateEmail reports exactly one VARIANT_COUNT_INSUFFICIENT
\* ERROR located at the field when the field has fewer variants than
\* required, with the message 'observed < required', and none otherwise.
C18_OneCountErrorPerField ==
    (Returned("validateEmail") /\ call.arg.doc.output = "text") =>
        \A f \in CountedFields :
            LET at == {i \in WithCode(call.ret.violations,
                                      "VARIANT_COUNT_INSUFFICIENT") :
                          call.ret.violations[i].location = f}
                observed == call.arg.doc.count[f]
                required == call.arg.required[f]
            IN  IF observed < required
                THEN /\ Cardinality(at) = 1
                     /\ \A i \in at :
                          /\ call.ret.violations[i].severity = "ERROR"
                          /\ call.ret.violations[i].message =
                                <<observed, required>>
                ELSE at = {}

\* C19: a text of n characters checked against the limit L gets exactly one
\* length ERROR when n > L and none otherwise, and the violation reports
\* the overage n - L; n counts characters, not UTF-16 units, in
\* checkCharLimit and in validateMultiformat's limit checks alike.
C19_LengthCountsCharacters ==
    (Returned("checkCharLimit") \/ Returned("checkLengthLimits")) =>
        LET n == call.arg.text.points
            L == call.arg.limit
        IN  IF n > L
            THEN /\ Len(call.ret) = 1
                 /\ call.ret[1].severity = "ERROR"
                 /\ call.ret[1].suggestedFix = n - L
            ELSE call.ret = <<>>

\* Some occurrence of the stem has no exception phrase within its own
\* window, which reaches from 20 characters before it to `after` after it.
SomeOccurrenceUnexcused(text, holder, after) ==
    \E i \in 1..Len(text) :
        /\ text[i] = holder
        /\ ~ExceptionIn(text, Max(0, Offset(text, i) - 20),
                        Min(TextLength(text), Offset(text, i) + after))

\* C20: checkForbiddenWords reports 'купи' (and 'покупк', 'дегустац') if
\* and only if some occurrence of the stem has no exception phrase within
\* that occurrence's window: an exception elsewhere in the text, or next to
\* another occurrence, does not excuse it.
C20_EveryOccurrenceNeedsException ==
    Returned("checkForbiddenWords") =>
        LET text == call.arg.text
            reported(c) == WithCode(call.ret, c) # {}
        IN  /\ reported("FORBIDDEN_KUPIT")
                <=> SomeOccurrenceUnexcused(text, "K", 30)
            /\ reported("FORBIDDEN_POKUPKA")
                <=> SomeOccurrenceUnexcused(text, "PK", 40)
            /\ reported("FORBIDDEN_DEGUSTATSIYA")
                <=> \E i \in 1..Len(text) : text[i] = "D"

\* C21: surgicalRepair returns null without a generator call when the
\* violation's scope requires full context or extractField does not locate
\* the field, and replaceField on that draft and field then returns the
\* draft unchanged; otherwise it makes exactly one generator call and, when
\* the call completes, returns the draft with that field's span replaced by
\* the answer and nothing else changed.
C21_SurgicalOrNull ==
    Returned("surgicalRepair") =>
        LET d == call.arg.currentOutput
            scope == determineRepairScope(call.arg.violation)
            f == scope.field
        IN  IF scope.requiresFullContext \/ extractField(d, f) = <<>>
            THEN /\ call.ret.kind = "null"
                 /\ call.ret.calls = 0
                 /\ \A s \in RepairedFields : replaceField(d, f, s) = d
            ELSE /\ call.ret.calls = 1
                 /\ call.ret.kind \in {"output", "rejected"}
                 /\ call.ret.kind = "output" =>
                      \E s \in RepairedFields :
                      \E a \in 1..Len(d) : \E b \in a..Len(d) :
                        /\ call.ret.output = SubSeq(d, 1, a - 1) \o <<s, "">>
                                               \o SubSeq(d, b + 1, Len(d))
                        /\ extractField(d, f) = SpanText(d, a, b)

\* A located field is repaired by one call.
C21_Witness ==
    /\ Returned("surgicalRepair")
    /\ call.arg.violation.code = "CHAR_LIMIT_EXCEEDED"
    /\ call.arg.violation.location = "subject"
    /\ call.arg.currentOutput = <<"SUBJ", "var", "", "CTA">>
    /\ call.ret = Progress(1, "output", <<"NEW", "", "CTA">>)

\* C22: whenever parseEmailOutput recognizes the header line of field f in
\* draft d, extractField(d, f) is non-null and starts at that line, and the
\* span ends at the line before the next line parseEmailOutput recognizes as
\* a header of any field, or at the end of the draft.
C22_SameHeaderBoundaries ==
    Returned("extractField") =>
        LET d == call.arg.output
            f == call.arg.fieldName
            headers == {i \in 1..Len(d) : SectionOf(Trim(d[i])) # "none"}
            of_f == {i \in headers : SectionOf(Trim(d[i])) = f}
        IN  of_f # {} =>
              LET first == CHOOSE i \in of_f : \A j \in of_f : i <= j
                  later == {j \in headers : j > first}
                  last == IF later = {} THEN Len(d)
                          ELSE (CHOOSE j \in later : \A k \in later : j <= k) - 1
              IN  /\ call.ret # <<>>
                  /\ call.ret = SpanText(d, first, last)

\* The validator of the running orchestrator.
ValidationOf(d) ==
    IF fn = "generateEmail" THEN validateEmail(d) ELSE validateMultiformat(d)

\* The entries number their attempts from 1, strictly increasing, within
\* the budget; each one holds the answer to its attempt's generator call
\* and the validation of that answer.
HistoryWellFormed ==
    /\ attemptHistory # <<>> => attemptHistory[1].attempt = 1
    /\ \A i \in 1..Len(attemptHistory) :
          /\ attemptHistory[i].attempt \in 1..maxAttempts
          /\ i > 1 => attemptHistory[i - 1].attempt < attemptHistory[i].attempt
          /\ attemptHistory[i].validation = ValidationOf(attemptHistory[i].draft)
          /\ \E c \in 1..Len(responses) :
                /\ callLog[c].attempt = attemptHistory[i].attempt
                /\ responses[c] = attemptHistory[i].draft
    /\ \A c \in 1..Len(responses) :
          responses[c] = "fail" =>
              \A i \in 1..Len(attemptHistory) :
                  attemptHistory[i].attempt # callLog[c].attempt

\* A step leaves the history alone or appends the entry of the current
\* attempt, whose call has settled.
HistoryAppended ==
    \/ attemptHistory' = attemptHistory
    \/ /\ Len(attemptHistory') = Len(attemptHistory) + 1
       /\ SubSeq(attemptHistory', 1, Len(attemptHistory)) = attemptHistory
       /\ attemptHistory'[Len(attemptHistory')] =
             Entry(attempt, lastDraft', lastValidation')
       /\ outstanding' = 0
       /\ Len(responses') = Len(callLog')
       /\ callLog'[Len(callLog')].attempt = attempt
       /\ responses'[Len(responses')] = lastDraft'

\* C23: in every reachable state of a session the attempt history is only
\* appended to, its attempt indices are strictly increasing, start at 1 and
\* never exceed maxAttempts, and the entry of attempt k is added only after
\* attempt k's generator call completed and its draft was validated; an
\* attempt whose call failed has no entry.
C23_HistoryAppendOnly == []HistoryWellFormed /\ [][HistoryAppended]_vars

\* Attempt 2 failed: the history holds attempts 1 and 3.
C23_Witness ==
    /\ Len(attemptHistory) = 2
    /\ attemptHistory[2].attempt = 3
    /\ Len(responses) = 3
    /\ responses[2] = "fail"

\* The (code, location) pairs of a violation list.
PairSet(violations) ==
    {<<violations[i].code, violations[i].location>> :
        i \in 1..Len(violations)}

\* C24: generateViolationSignature gives two violation lists the same
\* signature if and only if they hold the same set of (code, location)
\* pairs, whatever the order of the violations, the number of times a pair
\* occurs and the severity.
C24_SignatureIsPairSet ==
    Returned("generateViolationSignature") =>
        ((call.ret.first = call.ret.second)
            <=> (PairSet(call.arg.first) = PairSet(call.arg.second)))

\* The header lines of d before line i.
HeadersBefore(d, i) == {j \in 1..(i - 1) : SectionOf(Trim(d[j])) # "none"}

\* The section current at line i: the one the last header before it opens.
CurrentAt(d, i) ==
    IF HeadersBefore(d, i) = {} THEN "null"
    ELSE LET h == CHOOSE j \in HeadersBefore(d, i) :
                        \A k \in HeadersBefore(d, i) : k <= j
         IN  SectionOf(Trim(d[h]))

\* The variant lists of a structure, by field; a block's titles under the
\* block's number.
StoredIn(structure, field, block) ==
    LET list == CASE field = "subject"        -> structure.subject
                  [] field = "preheader"      -> structure.preheader
                  [] field = "bannerTitle"    -> structure.bannerTitle
                  [] field = "bannerSubtitle" -> structure.bannerSubtitle
                  [] field = "intro"          -> structure.introText
                  [] field = "introCTA"       -> structure.introCTA
                  [] field = "blockTitle"     ->
                        IF block \in 1..Len(structure.blocks)
                        THEN structure.blocks[block].title ELSE <<>>
    IN  {list[k] : k \in 1..Len(list)}

ParsedFields ==
    {"subject", "preheader", "bannerTitle", "bannerSubtitle", "intro",
     "introCTA", "blockTitle"}

\* C25: every variant line parseEmailOutput reads while a field is current
\* is stored in that field's variant list, and in no other, whatever the
\* field and whatever header or end of input follows it.
C25_NoVariantDropped ==
    (Returned("parseEmailOutput") /\ call.ret # NullStructure) =>
        LET d == call.arg
        IN  \A i \in 1..Len(d) :
              (IsVariantLine(Trim(d[i])) /\ CurrentAt(d, i) \in ParsedFields) =>
                LET block == Cardinality({j \in HeadersBefore(d, i) :
                                            SectionOf(Trim(d[j])) = "blockTitle"})
                IN  /\ i \in StoredIn(call.ret, CurrentAt(d, i), block)
                    /\ \A f \in ParsedFields \ {CurrentAt(d, i)} :
                          \A b \in 0..Len(call.ret.blocks) :
                              i \notin StoredIn(call.ret, f, b)

\* C26: whenever an orchestrator composes a repair prompt, the violation
\* list it passes is the validation result of the draft it passes, also
\* after an earlier repair attempt failed part-way.
C26_RepairPromptConsistent ==
    \A c \in 1..Len(callLog) :
        callLog[c].kind = "repair" =>
            /\ ~ValidatorThrows(callLog[c].draft)
            /\ callLog[c].violations = ValidationOf(callLog[c].draft).violations

\* Every generator call so far was answered by a draft that validateEmail
\* finds invalid.
NoAttemptValid ==
    \A i \in 1..Len(responses) :
        /\ responses[i] \in Drafts
        /\ ~validateEmail(responses[i]).valid

C28_AttemptsIsHistoryLength ==
    pc = "done" => result.attempts = Len(attemptHistory)

\* C29: the character limits validateEmail enforces on subject and
\* preheader variants are the limits of the requirements extracted from the
\* brief, the ones the prompts state: a draft whose variants obey the
\* declared limits receives no CHAR_LIMIT_EXCEEDED violation.
C29_DeclaredLimitsEnforced ==
    Returned("validateEmailLimits") =>
        LET doc == call.arg.doc
            limits == call.ret.prompt
        IN  (/\ CodePoints(doc.subject) <= limits.subject
             /\ CodePoints(doc.preheader) <= limits.preheader) =>
                WithCode(call.ret.violations, "CHAR_LIMIT_EXCEEDED") = {}

\* C30: for every violation list and every knowledge base that holds a
\* FULL_KNOWLEDGE text, selectRelevantKnowledge returns a non-empty context,
\* also when a section the table names is missing from the knowledge base.
C30_NeverUnderInforms ==
    (/\ Returned("selectRelevantKnowledge")
     /\ "FULL_KNOWLEDGE" \in call.arg.knowledgeBase)
        => call.ret # <<>>

=============================================================================
